---- MODULE Spec2Model ----
(***************************************************************************)
(* AccountEditComponent (account-edit.component.ts): the form controls,    *)
(* the account$ pipeline and its subscriber, submit(), remove() and the    *)
(* ngOnInit / ngOnDestroy lifecycle, as a state machine.                   *)
(***************************************************************************)
EXTENDS Integers, Sequences, FiniteSets, TLC

VARIABLES
    phase,          \* "constructed" | "inited" | "destroyed"
    store,          \* login -> the AccountConfig the store holds for it, or Undef
    subscribed,     \* the account$ subscription held by this.subscription is open
    clickListener,  \* the document click listener is registered
    active,         \* login of concatMap's running inner store.select, or Undef
    buffer,         \* logins concatMap holds back behind the running inner
    account,        \* this.account
    formControls,   \* names of the controls this.form (the FormGroup) holds
    controls,       \* control name -> control.value
    errors,         \* control name -> control.errors
    edits,          \* number of values typed by the user so far
    ev              \* the last operation and what it did

vars == <<phase, store, subscribed, clickListener, active, buffer, account,
          formControls, controls, errors, edits, ev>>

\* ------------------------------------------------------------------ bounds

MaxEdits == 1

MaxBuffer == 1

\* ------------------------------------------------------- JavaScript values

Null == [t |-> "null"]

Undef == [t |-> "undefined"]

Str(s) == [t |-> "string", s |-> s]

Bool(b) == [t |-> "boolean", b |-> b]

Range(a, b) == [t |-> "range", start |-> a, end |-> b]

ValidationError(m) == [t |-> "error", validationError |-> m]

\* JavaScript truthiness of a value
Truthy(v) ==
    CASE v.t = "null" -> FALSE
      [] v.t = "undefined" -> FALSE
      [] v.t = "string" -> v.s # <<>>
      [] v.t = "boolean" -> v.b
      [] OTHER -> TRUE

\* Boolean(v)
ToBoolean(v) == Bool(Truthy(v))

IsSpace(ch) == ch = " "

RECURSIVE TrimStart(_)
TrimStart(s) ==
    IF s # <<>> /\ IsSpace(Head(s)) THEN TrimStart(Tail(s)) ELSE s

RECURSIVE TrimEnd(_)
TrimEnd(s) ==
    IF s # <<>> /\ IsSpace(s[Len(s)]) THEN TrimEnd(SubSeq(s, 1, Len(s) - 1)) ELSE s

\* String.prototype.trim
Trim(s) == TrimEnd(TrimStart(s))

Digits == <<"0", "1", "2", "3", "4", "5", "6", "7", "8", "9">>

IsDigit(ch) == \E d \in 1..10 : Digits[d] = ch

DigitValue(ch) == (CHOOSE d \in 1..10 : Digits[d] = ch) - 1

\* `${n}` of a non-negative integer
RECURSIVE NumToStr(_)
NumToStr(n) ==
    IF n < 10 THEN <<Digits[n + 1]>>
    ELSE NumToStr(n \div 10) \o <<Digits[(n % 10) + 1]>>

\* mutant: the two numbers in the wrong order
RangeToStrSwapped(r) == NumToStr(r.end) \o <<"-">> \o NumToStr(r.start)

\* `${range.start}-${range.end}`
RangeToStr(r) == NumToStr(r.start) \o <<"-">> \o NumToStr(r.end)

\* --------------------------------------------- the range validation utility

\* the index of the first "-" in s, or 0
RECURSIVE DashAt(_, _)
DashAt(s, i) ==
    IF i > Len(s) THEN 0
    ELSE IF s[i] = "-" THEN i
    ELSE DashAt(s, i + 1)

IsNumber(s) == s # <<>> /\ \A i \in 1..Len(s) : IsDigit(s[i])

RECURSIVE ParseNum(_)
ParseNum(s) ==
    IF s = <<>> THEN 0
    ELSE 10 * ParseNum(SubSeq(s, 1, Len(s) - 1)) + DigitValue(s[Len(s)])

\* parseLoginDelaySecondsRange: the two numbers of a "start-end" string, or Undef
parseLoginDelaySecondsRange(s) ==
    LET d == DashAt(s, 1)
        left == SubSeq(s, 1, d - 1)
        right == SubSeq(s, d + 1, Len(s))
    IN  IF d # 0 /\ IsNumber(left) /\ IsNumber(right)
        THEN Range(ParseNum(left), ParseNum(right))
        ELSE Undef

\* validateLoginDelaySecondsRange: the range, or a validation error
validateLoginDelaySecondsRange(s) ==
    LET range == parseLoginDelaySecondsRange(s)
    IN  IF range = Undef THEN ValidationError("format")
        ELSE IF range.start > range.end THEN ValidationError("order")
        ELSE range

\* ------------------------------------------------------------ the controls

ControlNames ==
    {"login", "title", "database", "persistentSession", "rotateUserAgent",
     "entryUrl", "proxyRules", "proxyBypassRules", "password", "twoFactorCode",
     "mailPassword", "loginDelayUntilSelected", "loginDelaySecondsRange"}

NoErrors == Null

Errors(key, val) == [t |-> "errors", key |-> key, val |-> val]

\* Validators.required
RequiredValidator(value) ==
    IF value = Null \/ value = Undef \/ value = Str(<<>>)
    THEN Errors("required", "true")
    ELSE NoErrors

\* mutant: the validator never reports
RangeValidatorSilent(value) == NoErrors

\* the validator of the loginDelaySecondsRange control
RangeValidator(value) ==
    LET validated ==
            IF Truthy(value) THEN validateLoginDelaySecondsRange(value.s) ELSE value
    IN  IF Truthy(validated) /\ validated.t = "error"
        THEN Errors("errorMsg", validated.validationError)
        ELSE NoErrors

\* the validator each control is constructed with
ValidatorOf(name, value) ==
    CASE name = "login" -> RequiredValidator(value)
      [] name = "entryUrl" -> RequiredValidator(value)
      [] name = "loginDelaySecondsRange" -> RangeValidator(value)
      [] OTHER -> NoErrors

\* form.valid: every control the group holds is valid
FormValid(group, errs) == \A name \in group : errs[name] = NoErrors

\* control.patchValue(value) / a value typed by the user: the value is set
\* and the control's validator runs on it
SetValue(c, name, value) ==
    [c EXCEPT !.controls[name] = value,
              !.errors[name] = ValidatorOf(name, value)]

\* ------------------------------------------------------------ the accounts

Logins == {Str(<<"a">>), Str(<<"b">>)}

Proxy(rules, bypass) == [t |-> "proxy", proxyRules |-> rules, proxyBypassRules |-> bypass]

Credentials(p, c, m) == [password |-> p, twoFactorCode |-> c, mailPassword |-> m]

\* the AccountConfig values the store may hold: with and without a proxy, a
\* range and the optional fields
AccountA1 ==
    [t |-> "account", login |-> Str(<<"a">>), title |-> Str(<<"T">>), database |-> Bool(TRUE),
     persistentSession |-> Bool(FALSE), rotateUserAgent |-> Undef,
     entryUrl |-> Str(<<"u">>),
     proxy |-> Proxy(Str(<<" ", "p">>), Str(<<" ">>)),
     credentials |-> Credentials(Str(<<"x">>), Undef, Str(<<"m">>)),
     loginDelayUntilSelected |-> Bool(TRUE),
     loginDelaySecondsRange |-> Range(5, 10)]

AccountA2 ==
    [t |-> "account", login |-> Str(<<"a">>), title |-> Undef, database |-> Undef,
     persistentSession |-> Bool(TRUE), rotateUserAgent |-> Bool(TRUE),
     entryUrl |-> Str(<<"u">>),
     proxy |-> Undef,
     credentials |-> Credentials(Undef, Str(<<"2">>), Undef),
     loginDelayUntilSelected |-> Undef,
     loginDelaySecondsRange |-> Undef]

AccountB1 ==
    [t |-> "account", login |-> Str(<<"b">>), title |-> Str(<<"B">>), database |-> Bool(FALSE),
     persistentSession |-> Undef, rotateUserAgent |-> Bool(FALSE),
     entryUrl |-> Str(<<"v">>),
     proxy |-> Proxy(Str(<<>>), Str(<<"q", " ">>)),
     credentials |-> Credentials(Str(<<"y">>), Str(<<"3">>), Str(<<"n">>)),
     loginDelayUntilSelected |-> Bool(FALSE),
     loginDelaySecondsRange |-> Range(0, 0)]

Accounts == {AccountA1, AccountA2, AccountB1}

\* the states of the store's account for a login
AccountsOf(login) == {Undef} \cup {a \in Accounts : a.login = login}

\* OptionsSelectors.SETTINGS.pickAccount({login}) on the store's state
pickAccount(st, login) == st[login]

\* the values a user types into (or ticks in) a control
Inputs(name) ==
    CASE name = "login" -> {Str(<<"a">>), Str(<<"c">>), Str(<<>>)}
      [] name \in {"proxyRules", "proxyBypassRules"} ->
            {Str(<<>>), Str(<<" ", " ">>), Str(<<" ", "r", " ">>)}
      [] name = "loginDelaySecondsRange" ->
            {Str(<<>>), Str(<<"1", "0", "-", "5">>), Str(<<"7", "-", "1", "2">>),
             Str(<<"7", "-">>)}
      [] name \in {"database", "persistentSession", "rotateUserAgent",
                   "loginDelayUntilSelected"} -> {Bool(TRUE), Bool(FALSE)}
      [] name = "entryUrl" -> {Str(<<"w">>), Null}
      [] OTHER -> {Str(<<"z">>)}

\* ----------------------------------------------- the account$ subscription

\* The component's own state as one record, so that the steps of one
\* synchronous delivery compose.
Component ==
    [account |-> account, formControls |-> formControls, controls |-> controls,
     errors |-> errors, active |-> active, buffer |-> buffer]

\* the subscriber of account$: stores the account, removes the login control
\* from the form group and patches the controls from the account
Subscriber(c, acc) ==
    LET c0 == [c EXCEPT !.account = acc, !.formControls = @ \ {"login"}]
        c1 == SetValue(c0, "title", acc.title)
        c2 == SetValue(c1, "database", acc.database)
        c3 == SetValue(c2, "persistentSession", acc.persistentSession)
        c4 == SetValue(c3, "rotateUserAgent", acc.rotateUserAgent)
        c5 == SetValue(c4, "entryUrl", acc.entryUrl)
        c6 == SetValue(c5, "proxyRules",
                       IF Truthy(acc.proxy) THEN acc.proxy.proxyRules ELSE Null)
        c7 == SetValue(c6, "proxyBypassRules",
                       IF Truthy(acc.proxy) THEN acc.proxy.proxyBypassRules ELSE Null)
        c8 == SetValue(c7, "password", acc.credentials.password)
        c9 == SetValue(c8, "twoFactorCode", acc.credentials.twoFactorCode)
        c10 == SetValue(c9, "mailPassword", acc.credentials.mailPassword)
        c11 == SetValue(c10, "loginDelayUntilSelected", acc.loginDelayUntilSelected)
    IN  SetValue(c11, "loginDelaySecondsRange",
                 IF Truthy(acc.loginDelaySecondsRange)
                 THEN Str(RangeToStr(acc.loginDelaySecondsRange))
                 ELSE Undef)

\* mutant: an absent selection clears the controls
OnSelectedResets(c, selected) ==
    IF Truthy(selected) THEN Subscriber(c, selected)
    ELSE [c EXCEPT !.controls = [name \in ControlNames |-> Null],
                   !.errors = [name \in ControlNames |-> ValidatorOf(name, Null)]]

\* mergeMap((account) => account ? [account] : []) and the subscriber behind it
OnSelected(c, selected) ==
    IF Truthy(selected) THEN Subscriber(c, selected) ELSE c

\* concatMap((login) => store.select(pickAccount({login}))): store.select never
\* completes, so the first login's inner stream stays the running one and every
\* later login waits in the buffer; a new inner stream emits the store's
\* current selection as it is subscribed
OnLogin(c, st, login) ==
    IF c.active # Undef
    THEN [c EXCEPT !.buffer = Append(@, login)]
    ELSE OnSelected([c EXCEPT !.active = login], pickAccount(st, login))

\* mergeMap(({login}) => login ? [String(login)] : []) and what follows it
OnParams(c, st, login) ==
    IF Truthy(login) THEN OnLogin(c, st, login) ELSE c

\* an emission of the store: the running inner stream emits when its selection
\* changed (distinctUntilChanged)
OnStore(c, old, new) ==
    IF c.active # Undef /\ pickAccount(new, c.active) # pickAccount(old, c.active)
    THEN OnSelected(c, pickAccount(new, c.active))
    ELSE c

\* whether a delivery of this login would exceed the modelled buffer
Fits(c, login) ==
    ~Truthy(login) \/ c.active = Undef \/ Len(c.buffer) < MaxBuffer

\* ------------------------------------------------------ submit and remove

\* value && value.trim()
TrimmedOrFalsy(value) == IF Truthy(value) THEN Str(Trim(value.s)) ELSE value

\* the proxy object submit() builds from the two proxy controls
ProxyOf(ctl) ==
    Proxy(TrimmedOrFalsy(ctl["proxyRules"]), TrimmedOrFalsy(ctl["proxyBypassRules"]))

\* mutant: only proxyRules decides whether the proxy is sent
ProxySpreadRulesOnly(proxy) ==
    IF Truthy(proxy.proxyRules) THEN [proxy |-> proxy] ELSE <<>>

\* ...((proxy.proxyRules || proxy.proxyBypassRules) && {proxy})
ProxySpread(proxy) ==
    IF Truthy(proxy.proxyRules) \/ Truthy(proxy.proxyBypassRules)
    THEN [proxy |-> proxy]
    ELSE <<>>

\* mutant: the patch login is always the login control's value
PatchLoginFromControl(acc, ctl) == ctl["login"]

\* the login of the patch
PatchLogin(acc, ctl) == IF Truthy(acc) THEN acc.login ELSE ctl["login"]

\* the value of the range control as submit() validates it
SubmitValidated(ctl) ==
    IF Truthy(ctl["loginDelaySecondsRange"])
    THEN validateLoginDelaySecondsRange(ctl["loginDelaySecondsRange"].s)
    ELSE Undef

\* the patch submit() builds, given the validated range
PatchOf(acc, ctl, validated) ==
    [login |-> PatchLogin(acc, ctl),
     title |-> ctl["title"],
     entryUrl |-> ctl["entryUrl"],
     database |-> ToBoolean(ctl["database"]),
     persistentSession |-> ToBoolean(ctl["persistentSession"]),
     rotateUserAgent |-> ToBoolean(ctl["rotateUserAgent"]),
     credentials |-> Credentials(ctl["password"], ctl["twoFactorCode"],
                                 ctl["mailPassword"]),
     loginDelayUntilSelected |-> ToBoolean(ctl["loginDelayUntilSelected"]),
     loginDelaySecondsRange |-> validated]
    @@ ProxySpread(ProxyOf(ctl))

Action(type, payload) == [type |-> type, payload |-> payload]

\* mutant: the variant follows the patch's login instead of this.account
SubmitActionByLogin(acc, patch) ==
    IF Truthy(patch.login)
    THEN Action("UpdateAccountRequest", patch)
    ELSE Action("AddAccountRequest", patch)

\* the action submit() dispatches
SubmitAction(acc, patch) ==
    IF Truthy(acc)
    THEN Action("UpdateAccountRequest", patch)
    ELSE Action("AddAccountRequest", patch)

Outcome(thrown, dialog, dispatched) ==
    [thrown |-> thrown, dialog |-> dialog, dispatched |-> dispatched]

\* mutant: the range is not checked again, whatever the utility returned is sent
SubmitOutcomeUnchecked(acc, ctl) ==
    Outcome(FALSE, FALSE,
            <<SubmitAction(acc, PatchOf(acc, ctl, SubmitValidated(ctl)))>>)

\* submit(): throws while building the patch, or dispatches one action
SubmitOutcome(acc, ctl) ==
    LET validated == SubmitValidated(ctl)
    IN  IF Truthy(validated) /\ validated.t = "error"
        THEN Outcome(TRUE, FALSE, <<>>)
        ELSE Outcome(FALSE, FALSE, <<SubmitAction(acc, PatchOf(acc, ctl, validated))>>)

\* mutant: the dialog's answer is ignored
RemoveOutcomeUnconfirmed(acc, ok) ==
    IF ~Truthy(acc) THEN Outcome(TRUE, FALSE, <<>>)
    ELSE Outcome(FALSE, TRUE, <<Action("RemoveAccountRequest", acc)>>)

\* remove(), the confirm dialog answering ok
RemoveOutcome(acc, ok) ==
    IF ~Truthy(acc) THEN Outcome(TRUE, FALSE, <<>>)
    ELSE IF ~ok THEN Outcome(FALSE, TRUE, <<>>)
    ELSE Outcome(FALSE, TRUE, <<Action("RemoveAccountRequest", acc)>>)

\* ---------------------------------------------------------------- actions

Ev(op, arg, out) ==
    [op |-> op, arg |-> arg, thrown |-> out.thrown, dialog |-> out.dialog,
     dispatched |-> out.dispatched]

Quiet == Outcome(FALSE, FALSE, <<>>)

RouteLogins == Logins \cup {Undef}

Snapshot(p, q) == [t |-> "route", params |-> p, queryParams |-> q]

\* the component's variables take the values of record c
Becomes(c) ==
    /\ account' = c.account
    /\ formControls' = c.formControls
    /\ controls' = c.controls
    /\ errors' = c.errors
    /\ active' = c.active
    /\ buffer' = c.buffer

Init ==
    /\ phase = "constructed"
    /\ store \in {st \in [Logins -> Accounts \cup {Undef}] :
                    \A l \in Logins : st[l] \in AccountsOf(l)}
    /\ subscribed = FALSE
    /\ clickListener = FALSE
    /\ active = Undef
    /\ buffer = <<>>
    /\ account = Undef
    /\ formControls = ControlNames
    /\ controls = [name \in ControlNames |-> Null]
    /\ errors = [name \in ControlNames |-> ValidatorOf(name, Null)]
    /\ edits = 0
    /\ ev = Ev("new", Undef, Quiet)

\* ngOnInit, the route holding params p and queryParams q: registers the click
\* listener and subscribes to account$, whose two sources replay their current
\* value, params first
NgOnInit(p, q) ==
    /\ phase = "constructed"
    /\ phase' = "inited"
    /\ clickListener' = TRUE
    /\ subscribed' = TRUE
    /\ Becomes(OnParams(OnParams(Component, store, p), store, q))
    /\ ev' = Ev("ngOnInit", Snapshot(p, q), Quiet)
    /\ UNCHANGED <<store, edits>>

\* activatedRoute.params emits
ParamsEmit(login) ==
    /\ phase # "constructed"
    /\ Fits(Component, login)
    /\ Becomes(IF subscribed THEN OnParams(Component, store, login) ELSE Component)
    /\ ev' = Ev("params", login, Quiet)
    /\ UNCHANGED <<phase, store, subscribed, clickListener, edits>>

\* activatedRoute.queryParams emits
QueryParamsEmit(login) ==
    /\ phase # "constructed"
    /\ Fits(Component, login)
    /\ Becomes(IF subscribed THEN OnParams(Component, store, login) ELSE Component)
    /\ ev' = Ev("queryParams", login, Quiet)
    /\ UNCHANGED <<phase, store, subscribed, clickListener, edits>>

\* the store's account for a login is added, updated or removed
StoreChange(login, acc) ==
    /\ acc # store[login]
    /\ store' = [store EXCEPT ![login] = acc]
    /\ Becomes(IF subscribed THEN OnStore(Component, store, store') ELSE Component)
    /\ ev' = Ev("store", login, Quiet)
    /\ UNCHANGED <<phase, subscribed, clickListener, edits>>

\* the user types a value into a control
SetControl(name, value) ==
    /\ phase # "destroyed"
    /\ edits < MaxEdits
    /\ edits' = edits + 1
    /\ Becomes(SetValue(Component, name, value))
    /\ ev' = Ev("edit", Undef, Quiet)
    /\ UNCHANGED <<phase, store, subscribed, clickListener>>

Submit ==
    /\ phase # "destroyed"
    /\ ev' = Ev("submit", Undef, SubmitOutcome(account, controls))
    /\ UNCHANGED <<phase, store, subscribed, clickListener, active, buffer,
                   account, formControls, controls, errors, edits>>

Remove(ok) ==
    /\ phase # "destroyed"
    /\ ev' = Ev("remove", Bool(ok), RemoveOutcome(account, ok))
    /\ UNCHANGED <<phase, store, subscribed, clickListener, active, buffer,
                   account, formControls, controls, errors, edits>>

\* mutant: the account$ subscription is not part of this.subscription
NgOnDestroyLeaks ==
    /\ phase = "inited"
    /\ phase' = "destroyed"
    /\ clickListener' = FALSE
    /\ ev' = Ev("ngOnDestroy", Undef, Quiet)
    /\ UNCHANGED <<store, subscribed, active, buffer, account, formControls,
                   controls, errors, edits>>

\* ngOnDestroy: this.subscription.unsubscribe() releases the click listener
\* and the account$ subscription, and with it the running inner stream and
\* the buffer
NgOnDestroy ==
    /\ phase = "inited"
    /\ phase' = "destroyed"
    /\ subscribed' = FALSE
    /\ clickListener' = FALSE
    /\ active' = Undef
    /\ buffer' = <<>>
    /\ ev' = Ev("ngOnDestroy", Undef, Quiet)
    /\ UNCHANGED <<store, account, formControls, controls, errors, edits>>

Next ==
    \/ \E p \in RouteLogins, q \in RouteLogins : NgOnInit(p, q)
    \/ \E login \in RouteLogins : ParamsEmit(login)
    \/ \E login \in RouteLogins : QueryParamsEmit(login)
    \/ \E login \in Logins : \E acc \in AccountsOf(login) : StoreChange(login, acc)
    \/ \E name \in ControlNames : \E value \in Inputs(name) : SetControl(name, value)
    \/ Submit
    \/ \E ok \in BOOLEAN : Remove(ok)
    \/ NgOnDestroy

Spec == Init /\ [][Next]_vars

\* the system keeps taking steps: events keep arriving and are delivered
LiveSpec == Spec /\ WF_vars(Next)

\* ------------------------------------------------------------- the claims

Submitted == ev.op = "submit" /\ ~ev.thrown

Dispatched == ev.dispatched[1]

IsString(v) == v.t = "string"

\* null, undefined, the empty string or only whitespace
IsBlank(v) == ~IsString(v) \/ Trim(v.s) = <<>>

TrimmedValue(v) == IF IsString(v) THEN Str(Trim(v.s)) ELSE v

RangeRejected(v) ==
    Truthy(v) /\ validateLoginDelaySecondsRange(v.s).t = "error"

\* C1: a submit() that dispatches leaves the proxy key out of the patch when
\* both proxy controls are blank (null, empty or whitespace only), and
\* otherwise puts a proxy in the patch that holds both controls' values
\* trimmed (a null control value stays null).
C1_ProxyKey ==
    Submitted =>
        LET patch == Dispatched.payload
            rules == controls["proxyRules"]
            bypass == controls["proxyBypassRules"]
        IN  IF IsBlank(rules) /\ IsBlank(bypass)
            THEN "proxy" \notin DOMAIN patch
            ELSE /\ "proxy" \in DOMAIN patch
                 /\ patch.proxy.proxyRules = TrimmedValue(rules)
                 /\ patch.proxy.proxyBypassRules = TrimmedValue(bypass)

\* account b is loaded, the user blanks proxyRules with spaces, and submit()
\* still sends the proxy because proxyBypassRules is "q " (sent as "q")
C1_Witness ==
    /\ Submitted
    /\ controls["proxyRules"] = Str(<<" ", " ">>)
    /\ controls["proxyBypassRules"] = Str(<<"q", " ">>)
    /\ "proxy" \in DOMAIN Dispatched.payload
    /\ Dispatched.payload.proxy = Proxy(Str(<<>>), Str(<<"q">>))

\* C2: submit() with a non-empty range value that the validation utility
\* rejects throws and dispatches nothing, with or without a loaded account.
C2_InvalidRangeThrows ==
    (ev.op = "submit" /\ RangeRejected(controls["loginDelaySecondsRange"]))
        => (ev.thrown /\ ev.dispatched = <<>>)

\* an account is loaded, the user types "10-5", submit() throws
C2_Witness ==
    /\ ev.op = "submit"
    /\ Truthy(account)
    /\ controls["loginDelaySecondsRange"] = Str(<<"1", "0", "-", "5">>)
    /\ ev.thrown

\* C3: a submit() that does not throw dispatches exactly one action:
\* UpdateAccountRequest when this.account is set, AddAccountRequest when not.
C3_Variant ==
    Submitted =>
        /\ Len(ev.dispatched) = 1
        /\ Dispatched.type =
              IF Truthy(account) THEN "UpdateAccountRequest" ELSE "AddAccountRequest"

\* no account is loaded, the login control holds the login of an account the
\* store has, and submit() still dispatches an add
C3_Witness ==
    /\ Submitted
    /\ ~Truthy(account)
    /\ controls["login"] = Str(<<"a">>)
    /\ Truthy(store[Str(<<"a">>)])
    /\ Dispatched.type = "AddAccountRequest"

\* C4: remove() throws without showing the dialog and dispatches nothing when
\* no account is loaded; with an account it shows the dialog and dispatches
\* nothing when declined, one RemoveAccountRequest carrying this.account when
\* accepted.
C4_RemoveOutcomes ==
    ev.op = "remove" =>
        IF ~Truthy(account)
        THEN ev.thrown /\ ~ev.dialog /\ ev.dispatched = <<>>
        ELSE /\ ~ev.thrown
             /\ ev.dialog
             /\ ev.dispatched =
                   IF ev.arg = Bool(TRUE)
                   THEN <<Action("RemoveAccountRequest", account)>>
                   ELSE <<>>

\* the store replaced the loaded account of login a, and the accepted remove
\* carries the replacement
C4_Witness ==
    /\ ev.op = "remove"
    /\ account = AccountA2
    /\ ev.dispatched = <<Action("RemoveAccountRequest", AccountA2)>>

\* the controls other than login hold the account's fields
Reflects(acc, ctl) ==
    /\ ctl["title"] = acc.title
    /\ ctl["database"] = acc.database
    /\ ctl["persistentSession"] = acc.persistentSession
    /\ ctl["rotateUserAgent"] = acc.rotateUserAgent
    /\ ctl["entryUrl"] = acc.entryUrl
    /\ ctl["proxyRules"] = IF acc.proxy = Undef THEN Null ELSE acc.proxy.proxyRules
    /\ ctl["proxyBypassRules"] =
          IF acc.proxy = Undef THEN Null ELSE acc.proxy.proxyBypassRules
    /\ ctl["password"] = acc.credentials.password
    /\ ctl["twoFactorCode"] = acc.credentials.twoFactorCode
    /\ ctl["mailPassword"] = acc.credentials.mailPassword
    /\ ctl["loginDelayUntilSelected"] = acc.loginDelayUntilSelected
    /\ IF acc.loginDelaySecondsRange = Undef
       THEN ctl["loginDelaySecondsRange"] = Undef
       ELSE /\ IsString(ctl["loginDelaySecondsRange"])
            /\ parseLoginDelaySecondsRange(ctl["loginDelaySecondsRange"].s)
                  = acc.loginDelaySecondsRange

\* C5 as stated: once the subscriber has run for an account, every control,
\* the login control included, holds the account's field.
C5_AllControlsReflect ==
    [][account' # account =>
          (Reflects(account', controls') /\ controls'["login"] = account'.login)]_vars

\* C5 as amended: once the subscriber has run for an account, every control
\* but login holds the account's field (null for the proxy controls of an
\* account without proxy, "start-end" or undefined for the range); the login
\* control keeps its value and is no longer in the form group.
C5_OtherControlsReflect ==
    [][account' # account =>
          /\ Reflects(account', controls')
          /\ controls'["login"] = controls["login"]
          /\ formControls' = ControlNames \ {"login"}]_vars

\* the user typed login "c", then account b was delivered by the store: the
\* controls show b, the login control still holds "c"
C5_Witness ==
    /\ ev.op = "store"
    /\ account = AccountB1
    /\ controls["login"] = Str(<<"c">>)
    /\ controls["loginDelaySecondsRange"] = Str(<<"0", "-", "0">>)

\* C6: whenever a route or query parameter emission carries a login the store
\* holds an account for, this.account eventually is that login's account.
C6_EveryEmissionLoads ==
    \A login \in Logins :
        (/\ subscribed
         /\ ev.op \in {"params", "queryParams"}
         /\ ev.arg = login
         /\ Truthy(store[login]))
        ~> (Truthy(account) /\ account.login = login)

\* C7: a parameter emission without a login, or with a login the store has no
\* account for, leaves this.account, the form group's control set and every
\* control value as they were; so does ngOnInit when neither replayed value
\* selects an account.
C7_AbsentChangesNothing ==
    [][(\/ /\ ev'.op \in {"params", "queryParams"}
           /\ (~Truthy(ev'.arg) \/ ~Truthy(store[ev'.arg]))
        \/ /\ ev'.op = "ngOnInit"
           /\ (~Truthy(ev'.arg.params) \/ ~Truthy(store[ev'.arg.params]))
           /\ (~Truthy(ev'.arg.queryParams) \/ ~Truthy(store[ev'.arg.queryParams])))
       => UNCHANGED <<account, formControls, controls>>]_vars

\* the first login emitted has no account in the store: the value the user
\* typed before is still there and no account is loaded
C7_Witness ==
    /\ ev.op = "queryParams"
    /\ Truthy(ev.arg)
    /\ ~Truthy(store[ev.arg])
    /\ active = ev.arg
    /\ edits = 1
    /\ controls["title"] = Str(<<"z">>)
    /\ ~Truthy(account)

\* C8: the range control has an error, carrying the utility's message, exactly
\* when its value is non-empty and the utility rejects it; and a submit() with
\* the control valid does not throw and its patch carries the validated range
\* (undefined for an empty value).
C8_RangeValidator ==
    LET value == controls["loginDelaySecondsRange"]
    IN  /\ errors["loginDelaySecondsRange"] =
              IF RangeRejected(value)
              THEN Errors("errorMsg", validateLoginDelaySecondsRange(value.s).validationError)
              ELSE NoErrors
        /\ (ev.op = "submit" /\ errors["loginDelaySecondsRange"] = NoErrors) =>
              /\ ~ev.thrown
              /\ Dispatched.payload.loginDelaySecondsRange =
                    IF Truthy(value) THEN validateLoginDelaySecondsRange(value.s)
                    ELSE Undef

\* the user typed "7-12" and submit() sends the range 7..12
C8_Witness ==
    /\ Submitted
    /\ controls["loginDelaySecondsRange"] = Str(<<"7", "-", "1", "2">>)
    /\ errors["loginDelaySecondsRange"] = NoErrors
    /\ Dispatched.payload.loginDelaySecondsRange = Range(7, 12)

\* C9: after ngOnDestroy both subscriptions are released, and no route or
\* store emission changes this.account, the form group or a control.
C9_ReleasedOnDestroy ==
    /\ [](phase = "destroyed" => (~subscribed /\ ~clickListener))
    /\ [][(phase = "destroyed" /\ ev'.op \in {"params", "queryParams", "store"})
            => UNCHANGED <<account, formControls, controls, errors>>]_vars

\* after the teardown the store replaced the account the component had
\* loaded, and the component still holds the old one
C9_Witness ==
    /\ phase = "destroyed"
    /\ ev.op = "store"
    /\ account = AccountA1
    /\ store[Str(<<"a">>)] = AccountA2

\* C10: a loaded account is never unset and its login never changes; while an
\* account is loaded the form group has no login control, so the form's
\* validity is that of the entryUrl and range controls; a submit() that does
\* not throw then dispatches an update whose patch login is the account's
\* login, and before any account is loaded the patch login is the login
\* control's value.
C10_LoadedAccountKeepsLogin ==
    /\ [][Truthy(account) => (Truthy(account') /\ account'.login = account.login)]_vars
    /\ [](Truthy(account) =>
            /\ "login" \notin formControls
            /\ FormValid(formControls, errors) <=>
                  (/\ errors["entryUrl"] = NoErrors
                   /\ errors["loginDelaySecondsRange"] = NoErrors))
    /\ [](Submitted =>
            IF Truthy(account)
            THEN /\ Dispatched.type = "UpdateAccountRequest"
                 /\ Dispatched.payload.login = account.login
            ELSE Dispatched.payload.login = controls["login"])

\* an account is loaded, the user emptied the login control (its required
\* validator fails), the form is valid and submit() updates the account
C10_Witness ==
    /\ Submitted
    /\ Truthy(account)
    /\ controls["login"] = Str(<<>>)
    /\ errors["login"] # NoErrors
    /\ FormValid(formControls, errors)
    /\ Dispatched.payload.login = account.login

====
